---- MODULE Spec2Model ----
(***************************************************************************)
(* Model of src/cad_agent.py: the CADAgent session (FeatureStore, Counter, *)
(* chat), its patch parser and applier, its context formatter, a caller    *)
(* that drives generate_patches, reset and get_current_state, and the      *)
(* interactive loop of main().                                             *)
(*                                                                         *)
(* A Python str is modelled as a sequence of atoms.  An atom is a run of   *)
(* characters that no operation of the program ever cuts: the whitespace   *)
(* characters and "_" are atoms of their own, so that strip, split,        *)
(* startswith, upper, int and the JSON codec act on atom boundaries.       *)
(***************************************************************************)
EXTENDS Integers, Sequences, FiniteSets, TLC

VARIABLES
    features,         \* self.features: ordered dict, <<[id, ref]>> in insertion order
    heap,             \* the payload objects the dict values refer to
    feature_counter,  \* self.feature_counter
    chat,             \* self.chat: the message list of the current chat object
    snapshot,         \* the dict returned by the last get_current_state(), held by the caller
    snapshot_held,    \* whether the caller holds such a dict
    mutations,        \* how many times the caller has written to the held dict
    warnings,         \* the warning lines printed by the last _parse_patches
    last,             \* the last generate_patches or reset: its outcome and return value
    before,           \* features/heap/counter/chat as they were when it started
    response,         \* the text handed to the last _parse_patches
    parsed,           \* what _parse_patches returned for it
    replica,          \* the store of a consumer that replays every returned batch
    main_pc,          \* main(): "none" not running, "input" at input(), "done", "raised"
    read,             \* main(): what the last input() delivered
    stdout,           \* main(): what the last pass through the loop printed
    first_inserted    \* main(): the ids in the order they first entered the store

vars == <<features, heap, feature_counter, chat, snapshot, snapshot_held, mutations,
          warnings, last, before, response, parsed, replica, main_pc, read, stdout,
          first_inserted>>

\* the variables of main()
mainVars == <<main_pc, read, stdout, first_inserted>>

----------------------------------------------------------------------------
(* Bounds *)

\* design requests per session (between two resets)
MaxTurns == 2
\* writes the caller makes to one dict returned by get_current_state
MaxMutations == 1

----------------------------------------------------------------------------
(* Python str operations on atom sequences *)

SP  == " "
TAB == "\t"
NL  == "\n"

\* str.isspace for one character
IsSpace(a) == a \in {SP, TAB, NL}

RECURSIVE LStrip(_)
LStrip(s) == IF s # <<>> /\ IsSpace(Head(s)) THEN LStrip(Tail(s)) ELSE s

RECURSIVE RStrip(_)
RStrip(s) ==
    IF s # <<>> /\ IsSpace(s[Len(s)]) THEN RStrip(SubSeq(s, 1, Len(s) - 1)) ELSE s

\* str.strip()
Strip(s) == RStrip(LStrip(s))

\* index of the first occurrence of atom sep in s, 0 when there is none
RECURSIVE FindFrom(_, _, _)
FindFrom(s, sep, i) ==
    IF i > Len(s) THEN 0 ELSE IF s[i] = sep THEN i ELSE FindFrom(s, sep, i + 1)

\* str.split(sep, maxsplit): maxsplit = -1 splits at every occurrence
RECURSIVE Split(_, _, _)
Split(s, sep, maxsplit) ==
    LET i == FindFrom(s, sep, 1)
    IN  IF maxsplit = 0 \/ i = 0
        THEN <<s>>
        ELSE <<SubSeq(s, 1, i - 1)>>
             \o Split(SubSeq(s, i + 1, Len(s)), sep,
                      IF maxsplit < 0 THEN maxsplit ELSE maxsplit - 1)

\* str.startswith(prefix)
StartsWith(s, prefix) ==
    Len(s) >= Len(prefix) /\ SubSeq(s, 1, Len(prefix)) = prefix

UpperAtom(a) ==
    CASE a \in {"insert", "Insert"} -> "INSERT"
      [] a = "replace" -> "REPLACE"
      [] a = "delete" -> "DELETE"
      [] a = "move" -> "MOVE"
      [] a \in {"at", "At"} -> "AT"
      [] a = "feat" -> "FEAT"
      [] a = "x" -> "X"
      [] a = "abc" -> "ABC"
      [] a = "add" -> "ADD"
      [] a = "box" -> "BOX"
      [] a = "{bad" -> "{BAD"
      [] a = "{\"k\":" -> "{\"K\":"
      [] a = "\"a\"}" -> "\"A\"}"
      [] a = "\"b\"}" -> "\"B\"}"
      [] a = "\"z\"}" -> "\"Z\"}"
      [] OTHER -> a

\* str.upper()
Upper(s) == [i \in 1..Len(s) |-> UpperAtom(s[i])]

LowerAtom(a) ==
    CASE a \in {"QUIT", "Quit"} -> "quit"
      [] a \in {"EXIT", "Exit"} -> "exit"
      [] a \in {"BYE", "Bye"} -> "bye"
      [] a \in {"STATE", "State"} -> "state"
      [] a \in {"RESET", "Reset"} -> "reset"
      [] a \in {"INSERT", "Insert"} -> "insert"
      [] a = "REPLACE" -> "replace"
      [] a = "DELETE" -> "delete"
      [] a = "MOVE" -> "move"
      [] a \in {"AT", "At"} -> "at"
      [] OTHER -> a

\* str.lower()
Lower(s) == [i \in 1..Len(s) |-> LowerAtom(s[i])]

----------------------------------------------------------------------------
(* int() and the json codec *)

Digits == <<"0", "1", "2", "3", "4", "5", "6", "7", "8", "9">>

IsDigit(a) == \E d \in 1..10 : Digits[d] = a

DigitVal(a) == (CHOOSE d \in 1..10 : Digits[d] = a) - 1

AllDigits(s) == s # <<>> /\ \A i \in 1..Len(s) : IsDigit(s[i])

RECURSIVE DecVal(_)
DecVal(s) ==
    IF s = <<>> THEN 0
    ELSE 10 * DecVal(SubSeq(s, 1, Len(s) - 1)) + DigitVal(s[Len(s)])

\* a numeral with its sign taken off
Unsigned(t, signs) == IF t # <<>> /\ t[1] \in signs THEN Tail(t) ELSE t

Signed(t, n) == IF t # <<>> /\ t[1] = "-" THEN 0 - n ELSE n

\* int(s) succeeds: optional surrounding whitespace, an optional sign, decimal digits
IntOk(s) == AllDigits(Unsigned(Strip(s), {"+", "-"}))

IntVal(s) == Signed(Strip(s), DecVal(Unsigned(Strip(s), {"+", "-"})))

RECURSIVE DecStr(_)
DecStr(n) ==
    IF n < 0 THEN <<"-">> \o DecStr(0 - n)
    ELSE IF n < 10 THEN <<Digits[n + 1]>>
    ELSE DecStr(n \div 10) \o <<Digits[(n % 10) + 1]>>

\* JSON values: an object with at most the key "k", or an integer
JObj(kv) == [t |-> "obj", kv |-> kv, n |-> 0]
JInt(n)  == [t |-> "int", kv |-> <<>>, n |-> n]

OBJ_OPEN == "{\"k\":"
StrClose(v) ==
    CASE v = "a" -> "\"a\"}"
      [] v = "b" -> "\"b\"}"
      [] v = "z" -> "\"z\"}"
StrVals == {"a", "b", "z"}

\* the text is a JSON number: an optional minus, no leading zero unless it is "0"
JsonIsInt(t) ==
    LET u == Unsigned(t, {"-"}) IN AllDigits(u) /\ (Len(u) = 1 \/ u[1] # "0")

JsonIsObj(t) ==
    \/ t = <<"{}">>
    \/ /\ Len(t) >= 2
       /\ t[1] = OBJ_OPEN
       /\ \E v \in StrVals : t[Len(t)] = StrClose(v)
       /\ \A i \in 2..(Len(t) - 1) : IsSpace(t[i])

\* json.loads(s) returns (does not raise JSONDecodeError)
JsonOk(s) == LET t == Strip(s) IN JsonIsInt(t) \/ JsonIsObj(t)

\* json.loads(s), where JsonOk(s)
JsonLoads(s) ==
    LET t == Strip(s)
    IN  IF JsonIsInt(t) THEN JInt(Signed(t, DecVal(Unsigned(t, {"-"}))))
        ELSE IF t = <<"{}">> THEN JObj(<<>>)
        ELSE JObj(<< <<"k", CHOOSE v \in StrVals : t[Len(t)] = StrClose(v)>> >>)

\* json.dumps(v)
JsonDumps(v) ==
    IF v.t = "int" THEN DecStr(v.n)
    ELSE IF v.kv = <<>> THEN <<"{}">>
    ELSE <<OBJ_OPEN, SP, StrClose(v.kv[1][2])>>

----------------------------------------------------------------------------
(* _parse_patches *)

Actions == {"INSERT", "REPLACE", "DELETE"}

\* the exception classes the except clause of the line loop catches
CaughtInParse == {"JSONDecodeError", "IndexError"}

\* the body of the for loop for one line: what it contributes
\*   kind "record": a patch is appended;  "skip": continue without a message;
\*   kind "warn": the except clause printed a warning;  "raise": an exception escaped
ParseLine(raw) ==
    LET line     == Strip(raw)
        parts    == Split(SubSeq(line, 3, Len(line)), SP, 2)
        action   == Upper(parts[2])
        json_str == IF Len(parts) > 2 THEN parts[3] ELSE <<"{}">>
        exc      == IF JsonOk(json_str) THEN "none" ELSE "JSONDecodeError"
        none     == [feature_id |-> <<>>, action |-> "", data |-> JObj(<<>>)]
    IN  IF line = <<>> \/ ~StartsWith(line, <<"AT", SP>>)
        THEN [kind |-> "skip", patch |-> none, line |-> line]
        ELSE IF Len(parts) < 2
        THEN [kind |-> "skip", patch |-> none, line |-> line]
        ELSE IF ~(Len(action) = 1 /\ action[1] \in Actions)
        THEN [kind |-> "skip", patch |-> none, line |-> line]
        ELSE IF exc = "none"
        THEN [kind |-> "record",
              patch |-> [feature_id |-> parts[1], action |-> action[1],
                         data |-> JsonLoads(json_str)],
              line |-> line]
        ELSE IF exc \in CaughtInParse
        THEN [kind |-> "warn", patch |-> none, line |-> line]
        ELSE [kind |-> "raise", patch |-> none, line |-> line]

\* response.strip().split('\n')
ResponseLines(text) == Split(Strip(text), NL, -1)

\* the loop over the lines, up to the first line whose exception escapes
RECURSIVE ParseLoop(_, _)
ParseLoop(lines, acc) ==
    IF lines = <<>> THEN acc
    ELSE LET r == ParseLine(Head(lines))
         IN  CASE r.kind = "record" ->
                    ParseLoop(Tail(lines), [acc EXCEPT !.patches = @ \o <<r.patch>>])
               [] r.kind = "warn" ->
                    ParseLoop(Tail(lines), [acc EXCEPT !.warned = @ \o <<r.line>>])
               [] r.kind = "raise" -> [acc EXCEPT !.raised = TRUE]
               [] OTHER -> ParseLoop(Tail(lines), acc)

\* _parse_patches(response): the returned list, the warnings printed, and whether
\* an exception escaped instead of a return
parse_patches(text) ==
    ParseLoop(ResponseLines(text), [patches |-> <<>>, warned |-> <<>>, raised |-> FALSE])

----------------------------------------------------------------------------
(* the ordered dict self.features and the objects its values refer to *)

DictKeys(d) == {d[i].id : i \in 1..Len(d)}

DictRefs(d) == {d[i].ref : i \in 1..Len(d)}

DictIndex(d, k) == CHOOSE i \in 1..Len(d) : d[i].id = k

\* mutant: an absent key removes the newest entry instead of nothing
DictPop_AbsentPopsLast(d, k) ==
    IF k \in DictKeys(d)
    THEN LET i == DictIndex(d, k) IN SubSeq(d, 1, i - 1) \o SubSeq(d, i + 1, Len(d))
    ELSE SubSeq(d, 1, Len(d) - 1)

\* d.pop(k, None)
DictPop(d, k) ==
    IF k \in DictKeys(d)
    THEN LET i == DictIndex(d, k) IN SubSeq(d, 1, i - 1) \o SubSeq(d, i + 1, Len(d))
    ELSE d

\* mutant: an assignment to an existing key moves it to the end
DictSet_MovesToEnd(d, k, ref) == Append(DictPop(d, k), [id |-> k, ref |-> ref])

\* d[k] = ref: an existing key keeps its place, a new key goes to the end
DictSet(d, k, ref) ==
    IF k \in DictKeys(d)
    THEN [d EXCEPT ![DictIndex(d, k)].ref = ref]
    ELSE Append(d, [id |-> k, ref |-> ref])

\* d.items() with each value read through its reference
DictItems(d, hp) == [i \in 1..Len(d) |-> [id |-> d[i].id, data |-> hp[d[i].ref]]]

\* the n smallest references not in used: the objects a parse creates
RECURSIVE NewRefs(_, _, _)
NewRefs(used, n, from) ==
    IF n = 0 THEN <<>>
    ELSE IF from \in used THEN NewRefs(used, n, from + 1)
    ELSE <<from>> \o NewRefs(used, n - 1, from + 1)

\* the heap with the objects that nothing refers to any more dropped
Collect(hp, live) == [r \in live |-> hp[r]]

----------------------------------------------------------------------------
(* _apply_patches *)

Max(a, b) == IF a >= b THEN a ELSE b

\* mutant: the counter takes the number of the last INSERT
CounterAfterInsert_LastWins(counter, feat_id) ==
    IF StartsWith(feat_id, <<"feat", "_">>)
    THEN LET num == Split(feat_id, "_", -1)[2]
         IN  IF IntOk(num) THEN IntVal(num) ELSE counter
    ELSE counter

\* the counter update of an INSERT
CounterAfterInsert(counter, feat_id) ==
    IF StartsWith(feat_id, <<"feat", "_">>)
    THEN LET num == Split(feat_id, "_", -1)[2]
         IN  IF IntOk(num) THEN Max(counter, IntVal(num)) ELSE counter
    ELSE counter

\* mutant: REPLACE requires the id to exist
ApplyPatch_StrictReplace(st, patch) ==
    CASE patch.action = "INSERT" ->
           [features |-> DictSet(st.features, patch.feature_id, patch.data),
            counter  |-> CounterAfterInsert(st.counter, patch.feature_id)]
      [] patch.action = "REPLACE" ->
           IF patch.feature_id \in DictKeys(st.features)
           THEN [features |-> DictSet(st.features, patch.feature_id, patch.data),
                 counter  |-> st.counter]
           ELSE st
      [] patch.action = "DELETE" ->
           [features |-> DictPop(st.features, patch.feature_id),
            counter  |-> st.counter]
      [] OTHER -> st

\* one iteration of the for loop; st = [features, counter], patch.data a reference
ApplyPatch(st, patch) ==
    CASE patch.action = "INSERT" ->
           [features |-> DictSet(st.features, patch.feature_id, patch.data),
            counter  |-> CounterAfterInsert(st.counter, patch.feature_id)]
      [] patch.action = "REPLACE" ->
           [features |-> DictSet(st.features, patch.feature_id, patch.data),
            counter  |-> st.counter]
      [] patch.action = "DELETE" ->
           [features |-> DictPop(st.features, patch.feature_id),
            counter  |-> st.counter]
      [] OTHER -> st

\* mutant: the batch is applied from its last record to its first
RECURSIVE apply_patches_RightToLeft(_, _)
apply_patches_RightToLeft(st, patches) ==
    IF patches = <<>> THEN st
    ELSE ApplyPatch(apply_patches_RightToLeft(st, Tail(patches)), Head(patches))

\* mutant: only the first record of the batch is applied
apply_patches_FirstOnly(st, patches) ==
    IF patches = <<>> THEN st ELSE ApplyPatch(st, Head(patches))

RECURSIVE apply_patches(_, _)
apply_patches(st, patches) ==
    IF patches = <<>> THEN st
    ELSE apply_patches(ApplyPatch(st, Head(patches)), Tail(patches))

----------------------------------------------------------------------------
(* _get_context_prompt *)

HEADER == "[Current Design State]"

RECURSIVE ContextLines(_)
ContextLines(items) ==
    IF items = <<>> THEN <<>>
    ELSE <<"-", SP>> \o Head(items).id \o <<":", SP>> \o JsonDumps(Head(items).data)
         \o <<NL>> \o ContextLines(Tail(items))

\* mutant: the header is written for an empty store too
get_context_prompt_AlwaysHeader(feats, hp) ==
    <<NL, NL, HEADER, NL>> \o ContextLines(DictItems(feats, hp))

get_context_prompt(feats, hp) ==
    IF feats = <<>> THEN <<>>
    ELSE <<NL, NL, HEADER, NL>> \o ContextLines(DictItems(feats, hp))

----------------------------------------------------------------------------
(* Inputs *)

F1  == <<"feat", "_", "1">>
F7  == <<"feat", "_", "7">>
F7X == <<"feat", "_", "7", "_", "x">>

ObjA == <<OBJ_OPEN, SP, StrClose("a")>>
ObjB == <<OBJ_OPEN, SP, StrClose("b")>>

\* a patch line as the system prompt asks for it
PatchLine(id, action, json) == <<"AT", SP>> \o id \o <<SP, action, SP>> \o json

\* the lines the collaborator answers with in a session
SessionLines ==
    { PatchLine(F7, "INSERT", ObjA),
      PatchLine(F1, "INSERT", <<"{}">>),
      PatchLine(F7X, "INSERT", ObjA),
      PatchLine(F7, "REPLACE", ObjB),
      PatchLine(F7, "DELETE", <<"{}">>),
      PatchLine(F1, "DELETE", ObjA),
      PatchLine(<<"x">>, "REPLACE", <<"7">>),
      PatchLine(F1, "INSERT", <<"{bad">>),
      <<"AT", SP, SP, "INSERT">> }

FirstLines ==
    { PatchLine(F7, "INSERT", ObjA),
      PatchLine(F1, "INSERT", <<"{}">>),
      PatchLine(F7, "DELETE", <<"{}">>),
      PatchLine(F1, "INSERT", <<"{bad">>) }

SecondLines ==
    { PatchLine(F7, "INSERT", ObjA),
      PatchLine(F1, "INSERT", <<"{}">>),
      PatchLine(F7, "REPLACE", ObjB),
      PatchLine(F7, "DELETE", <<"{}">>) }

\* response.content: no line, one line, or two lines
Responses ==
    {<<>>} \cup SessionLines
           \cup {l1 \o <<NL>> \o l2 : l1 \in FirstLines, l2 \in SecondLines}

\* the user_input of a design request
UserInputs == {<<"add", SP, "box">>}

\* what the collaborator can answer, with what _parse_patches makes of it
Sampled == {[content |-> c, r |-> parse_patches(c)] : c \in Responses}

SYSTEM_MESSAGE == [role |-> "system", content |-> <<"CAD_SYSTEM_PROMPT">>]

----------------------------------------------------------------------------
(* The session: a CADAgent object and its caller *)

\* how an operation ended: its argument, the number of chat.sample() calls it made,
\* and the list it returned
Returned(op, input, calls, patches) ==
    [op |-> op, outcome |-> "returned", input |-> input, calls |-> calls,
     patches |-> patches]

Raised(op, input, calls) ==
    [op |-> op, outcome |-> "raised", input |-> input, calls |-> calls, patches |-> <<>>]

\* nothing read from stdin yet
NoRead == [kind |-> "none", text |-> <<>>]

\* the consumer of the returned batches (a renderer, say): one record replayed on
\* its store of items, with the semantics of section 4.2 of the specification
ReplayRecord(items, patch) ==
    LET at   == {i \in 1..Len(items) : items[i].id = patch.feature_id}
        item == [id |-> patch.feature_id, data |-> patch.data]
    IN  IF patch.action = "DELETE"
        THEN SelectSeq(items, LAMBDA it : it.id # patch.feature_id)
        ELSE IF at = {} THEN Append(items, item)
        ELSE [i \in 1..Len(items) |-> IF i \in at THEN item ELSE items[i]]

RECURSIVE Replay(_, _)
Replay(items, patches) ==
    IF patches = <<>> THEN items
    ELSE Replay(ReplayRecord(items, Head(patches)), Tail(patches))

Observed == [items   |-> DictItems(features, heap),
             counter |-> feature_counter,
             chat    |-> chat,
             context |-> get_context_prompt(features, heap)]

Init ==
    /\ features = <<>>
    /\ heap = <<>>
    /\ feature_counter = 0
    /\ chat = <<SYSTEM_MESSAGE>>
    /\ snapshot = <<>>
    /\ snapshot_held = FALSE
    /\ mutations = 0
    /\ warnings = <<>>
    /\ last = Returned("init", <<>>, 0, <<>>)
    /\ before = [items |-> <<>>, counter |-> 0, chat |-> <<>>, context |-> <<>>]
    /\ response = <<>>
    /\ parsed = <<>>
    /\ replica = <<>>
    /\ main_pc = "none"
    /\ read = NoRead
    /\ stdout = <<>>
    /\ first_inserted = <<>>

\* mutant: the request is sent without the context block
ChatAfterAppend_NoContext(msgs, user_input, context) ==
    Append(msgs, [role |-> "user", content |-> user_input])

\* self.chat.append(user(full_prompt))
ChatAfterAppend(msgs, user_input, context) ==
    Append(msgs, [role |-> "user", content |-> user_input \o context])

\* the patches of a parse, each data value a new object: the references and the heap
WithRefs(patches, refs) ==
    [i \in 1..Len(patches) |-> [patches[i] EXCEPT !.data = refs[i]]]

HeapWith(hp, patches, refs) ==
    [r \in (DOMAIN hp) \cup {refs[i] : i \in 1..Len(refs)} |->
        IF r \in DOMAIN hp THEN hp[r]
        ELSE patches[CHOOSE i \in 1..Len(refs) : refs[i] = r].data]

\* generate_patches(user_input)
generate_patches(user_input) ==
    /\ Len(chat) <= MaxTurns
    /\ ~snapshot_held
    /\ before' = Observed
    /\ chat' = ChatAfterAppend(chat, user_input, get_context_prompt(features, heap))
    /\ \/ \* self.chat.sample() raises
          /\ last' = Raised("generate_patches", user_input, 1)
          /\ response' = <<>>
          /\ parsed' = <<>>
          /\ UNCHANGED <<features, heap, feature_counter, warnings>>
       \/ \* self.chat.sample() returns a response
          \E sample \in Sampled :
            LET r     == sample.r
                refs  == NewRefs(DOMAIN heap, Len(r.patches), 1)
                st    == apply_patches([features |-> features, counter |-> feature_counter],
                                       WithRefs(r.patches, refs))
            IN  /\ warnings' = r.warned
                /\ response' = sample.content
                /\ parsed' = r.patches
                /\ IF r.raised
                   THEN /\ last' = Raised("generate_patches", user_input, 1)
                        /\ UNCHANGED <<features, heap, feature_counter>>
                   ELSE /\ features' = st.features
                        /\ feature_counter' = st.counter
                        /\ heap' = Collect(HeapWith(heap, r.patches, refs),
                                           DictRefs(st.features) \cup DictRefs(snapshot))
                        /\ last' = Returned("generate_patches", user_input, 1, r.patches)
    /\ UNCHANGED <<snapshot, snapshot_held, mutations>>

\* _init_chat(): the chat it leaves in self.chat; created = FALSE when
\* self.client.chat.create raises
init_chat(msgs, created) == IF created THEN <<SYSTEM_MESSAGE>> ELSE msgs

\* reset()
reset ==
    /\ ~snapshot_held
    /\ before' = Observed
    /\ features' = <<>>
    /\ feature_counter' = 0
    /\ heap' = Collect(heap, DictRefs(snapshot))
    /\ response' = <<>>
    /\ parsed' = <<>>
    /\ \/ /\ chat' = init_chat(chat, TRUE)
          /\ last' = Returned("reset", <<>>, 0, <<>>)
       \/ /\ chat' = init_chat(chat, FALSE)
          /\ last' = Raised("reset", <<>>, 0)
    /\ UNCHANGED <<snapshot, snapshot_held, mutations, warnings>>

\* get_current_state(): the caller keeps the returned dict
get_current_state ==
    /\ features # <<>>
    /\ ~snapshot_held
    /\ snapshot' = features
    /\ snapshot_held' = TRUE
    /\ mutations' = 0
    /\ UNCHANGED <<features, heap, feature_counter, chat, warnings, last, before,
                   response, parsed, replica>>
    /\ UNCHANGED mainVars

\* the caller writes to the dict it was given: state[k] = {}, del state[k],
\* or state[k]["k"] = "z"
MutateSnapshot ==
    /\ snapshot_held
    /\ mutations < MaxMutations
    /\ mutations' = mutations + 1
    /\ \/ /\ <<"x">> \notin DictKeys(snapshot)
          /\ LET ref == NewRefs(DOMAIN heap, 1, 1)[1]
             IN  /\ snapshot' = DictSet(snapshot, <<"x">>, ref)
                 /\ heap' = [r \in DOMAIN heap \cup {ref} |->
                                IF r = ref THEN JObj(<<>>) ELSE heap[r]]
       \/ \E k \in DictKeys(snapshot) :
            /\ snapshot' = DictPop(snapshot, k)
            /\ heap' = Collect(heap, DictRefs(features) \cup DictRefs(snapshot'))
       \/ \E i \in 1..Len(snapshot) :
            /\ heap[snapshot[i].ref].t = "obj"
            /\ heap' = [heap EXCEPT ![snapshot[i].ref] = JObj(<< <<"k", "z">> >>)]
            /\ snapshot' = snapshot
    /\ UNCHANGED <<features, feature_counter, chat, snapshot_held, warnings, last, before,
                   response, parsed, replica>>
    /\ UNCHANGED mainVars

\* the caller lets go of the dict
DropSnapshot ==
    /\ snapshot_held
    /\ snapshot' = <<>>
    /\ snapshot_held' = FALSE
    /\ mutations' = 0
    /\ heap' = Collect(heap, DictRefs(features))
    /\ UNCHANGED <<features, feature_counter, chat, warnings, last, before, response, parsed,
                   replica>>
    /\ UNCHANGED mainVars

\* what the consumer of the returned lists holds after a call of generate_patches:
\* it replays the list the call returned, and has nothing to replay when it raised
ReplicaAfter(items, result) ==
    IF result.outcome = "returned" THEN Replay(items, result.patches) ELSE items

\* a caller that uses the agent as a library: patches = agent.generate_patches(u),
\* handed to the consumer
CallGeneratePatches ==
    /\ \E u \in UserInputs : generate_patches(u)
    /\ replica' = ReplicaAfter(replica, last')
    /\ UNCHANGED mainVars

\* agent.reset(); the consumer starts again from an empty store
CallReset ==
    /\ reset
    /\ replica' = <<>>
    /\ UNCHANGED mainVars

\* the session as generate_patches and reset drive it
Next ==
    \/ CallGeneratePatches
    \/ CallReset

Spec == Init /\ [][Next]_vars

\* the session with a caller that also inspects the state
NextSnapshot ==
    \/ CallGeneratePatches
    \/ CallReset
    \/ get_current_state
    \/ MutateSnapshot
    \/ DropSnapshot

SpecSnapshot == Init /\ [][NextSnapshot]_vars

----------------------------------------------------------------------------
(* main(): the interactive loop *)

\* what the user types at the prompt
MainInputs ==
    { <<>>, <<SP>>,
      <<"quit">>, <<"Quit">>, <<"exit">>, <<"BYE">>, <<SP, "quit", SP>>,
      <<"state">>, <<"STATE">>,
      <<"reset">>, <<"Reset">>,
      <<"add", SP, "box">>, <<"quit", SP, "now">> }

\* the exceptions input() delivers instead of a line
InputSignals == {"KeyboardInterrupt", "EOFError"}

\* what the collaborator call can raise: an API error, or the interrupt of the
\* user who presses Ctrl-C while the call is pending
SampleRaises == {"Exception", "KeyboardInterrupt"}

\* the exception classes "except Exception" catches
CaughtInMain == {"Exception"}

ExitWords == {<<"quit">>, <<"exit">>, <<"bye">>}

FAREWELL == "Goodbye!"

\* user_input = input("You: ").strip()
Line(text) == [kind |-> "line", text |-> Strip(text)]

\* what a line that is not blank and not an exit word is dispatched as
IsDesignRequest(text) ==
    /\ text # <<>>
    /\ Lower(text) \notin ExitWords \cup {<<"state">>, <<"reset">>}

\* json.dumps(data, indent=2) of a payload that sits at nesting depth 1
DumpsIndented(v) ==
    IF v.t = "int" THEN DecStr(v.n)
    ELSE IF v.kv = <<>> THEN <<"{}">>
    ELSE <<"{", NL, SP, SP, SP, SP, "\"k\":", SP, "\"", v.kv[1][2], "\"", NL, SP, SP, "}">>

RECURSIVE DumpEntries(_)
DumpEntries(items) ==
    IF items = <<>> THEN <<>>
    ELSE <<SP, SP, "\"">> \o Head(items).id \o <<"\"", ":", SP>>
         \o DumpsIndented(Head(items).data)
         \o (IF Len(items) > 1 THEN <<",", NL>> ELSE <<NL>>)
         \o DumpEntries(Tail(items))

\* json.dumps(state, indent=2) of a non-empty dict
StateDump(items) == <<"{", NL>> \o DumpEntries(items) \o <<"}">>

\* print(f"AT {feat_id} {action} {data}") for each patch
RECURSIVE PrintedPatches(_)
PrintedPatches(patches) ==
    IF patches = <<>> THEN <<>>
    ELSE << <<"AT", SP>> \o Head(patches).feature_id \o <<SP, Head(patches).action, SP>>
            \o JsonDumps(Head(patches).data) >>
         \o PrintedPatches(Tail(patches))

\* print(f"Warning: Failed to parse patch line: {line}") for each line warned about
PrintedWarnings(lines) ==
    [i \in 1..Len(lines) |-> <<"Warning: Failed to parse patch line: ">> \o lines[i]]

\* the ids of a batch that enter the store for the first time in the session
RECURSIVE FirstInsertedAfter(_, _)
FirstInsertedAfter(seen, patches) ==
    IF patches = <<>> THEN seen
    ELSE LET p == Head(patches)
         IN  FirstInsertedAfter(
                 IF p.action # "DELETE" /\ \A i \in 1..Len(seen) : seen[i] # p.feature_id
                 THEN Append(seen, p.feature_id) ELSE seen,
                 Tail(patches))

\* the state after "agent = CADAgent()", at the first input()
InitMain ==
    /\ features = <<>>
    /\ heap = <<>>
    /\ feature_counter = 0
    /\ chat = <<SYSTEM_MESSAGE>>
    /\ snapshot = <<>>
    /\ snapshot_held = FALSE
    /\ mutations = 0
    /\ warnings = <<>>
    /\ last = Returned("init", <<>>, 0, <<>>)
    /\ before = [items |-> <<>>, counter |-> 0, chat |-> <<>>, context |-> <<>>]
    /\ response = <<>>
    /\ parsed = <<>>
    /\ replica = <<>>
    /\ main_pc = "input"
    /\ read = NoRead
    /\ stdout = <<>>
    /\ first_inserted = <<>>

\* what a pass through the loop that calls no agent method leaves alone
agentVars == <<features, heap, feature_counter, chat, snapshot, snapshot_held, mutations,
               warnings, last, before, response, parsed, replica>>

\* input() raises KeyboardInterrupt or EOFError: farewell and break
main_signal ==
    /\ main_pc = "input"
    /\ \E sig \in InputSignals : read' = [kind |-> sig, text |-> <<>>]
    /\ stdout' = << <<NL, FAREWELL>> >>
    /\ main_pc' = "done"
    /\ UNCHANGED first_inserted
    /\ UNCHANGED agentVars

\* an empty or blank line: continue
main_blank ==
    /\ main_pc = "input"
    /\ \E text \in MainInputs :
         /\ Strip(text) = <<>>
         /\ read' = Line(text)
    /\ stdout' = <<>>
    /\ UNCHANGED <<main_pc, first_inserted>>
    /\ UNCHANGED agentVars

\* quit, exit or bye in any case: farewell and break
main_quit ==
    /\ main_pc = "input"
    /\ \E text \in MainInputs :
         /\ Lower(Strip(text)) \in ExitWords
         /\ read' = Line(text)
    /\ stdout' = << <<FAREWELL>> >>
    /\ main_pc' = "done"
    /\ UNCHANGED first_inserted
    /\ UNCHANGED agentVars

\* state: print agent.get_current_state(); the dict is dropped at once
main_state ==
    /\ main_pc = "input"
    /\ \E text \in MainInputs :
         /\ Lower(Strip(text)) = <<"state">>
         /\ read' = Line(text)
    /\ stdout' = IF features # <<>>
                 THEN << <<NL, HEADER>>, StateDump(DictItems(features, heap)), <<>> >>
                 ELSE << <<NL, "[No features in current design]">>, <<>> >>
    /\ UNCHANGED <<main_pc, first_inserted>>
    /\ UNCHANGED agentVars

\* reset: agent.reset() is called outside any try, so what it raises leaves main()
main_reset ==
    /\ main_pc = "input"
    /\ \E text \in MainInputs :
         /\ Lower(Strip(text)) = <<"reset">>
         /\ read' = Line(text)
    /\ reset
    /\ replica' = <<>>
    /\ first_inserted' = <<>>
    /\ IF last'.outcome = "returned"
       THEN /\ stdout' = << <<"[Design reset - starting fresh]", NL>> >>
            /\ main_pc' = "input"
       ELSE /\ stdout' = <<>>
            /\ main_pc' = "raised"

\* any other line: agent.generate_patches(user_input) inside try/except Exception
main_request ==
    /\ main_pc = "input"
    /\ \E text \in MainInputs :
         /\ IsDesignRequest(Strip(text))
         /\ read' = Line(text)
         /\ generate_patches(Strip(text))
    /\ replica' = ReplicaAfter(replica, last')
    /\ first_inserted' = FirstInsertedAfter(first_inserted, last'.patches)
    /\ IF last'.outcome = "returned"
       THEN /\ stdout' = PrintedWarnings(warnings')
                         \o (IF last'.patches # <<>>
                             THEN << <<NL, "[Generated Patches]">> >>
                                  \o PrintedPatches(last'.patches) \o << <<>> >>
                             ELSE << <<NL, "[No valid patches generated]", NL>> >>)
            /\ main_pc' = "input"
       ELSE \E exc \in SampleRaises :
              IF exc \in CaughtInMain
              THEN /\ stdout' = << <<NL, "[Error: ", "e", "]", NL>> >>
                   /\ main_pc' = "input"
              ELSE /\ stdout' = <<>>
                   /\ main_pc' = "raised"

NextMain ==
    \/ main_signal
    \/ main_blank
    \/ main_quit
    \/ main_state
    \/ main_reset
    \/ main_request

SpecMain == InitMain /\ [][NextMain]_vars

----------------------------------------------------------------------------
(* _parse_patches on its own: the texts it is given *)

Leads  == {<<>>, <<SP>>}
Heads  == {"AT", "at", "At", "x"}
Seps   == {<<SP>>, <<SP, SP>>, <<TAB>>}
LineIds == {F1, <<"x">>}
ActionTokens == {"INSERT", "insert", "Insert", "REPLACE", "DELETE", "MOVE"}
Tails  == { <<>>, <<SP, "{}">>, <<SP>> \o ObjA, <<SP, "{bad">>, <<SP, SP, "{}">>,
            <<TAB, "{}">>, <<SP, "7">>, <<SP, "{}", SP>>, <<SP, "DELETE">> }

ParseLines ==
    {lead \o <<h>> : lead \in Leads, h \in Heads}
    \cup {<<h>> \o s1 \o id : h \in Heads, s1 \in Seps, id \in LineIds}
    \cup {<<"AT", SP, SP, "INSERT">> \o t : t \in Tails}
    \cup {lead \o <<h>> \o s1 \o id \o s2 \o <<a>> \o t :
             lead \in Leads, h \in Heads, s1 \in Seps, id \in LineIds, s2 \in Seps,
             a \in ActionTokens, t \in Tails}

\* the lines put before or after the line under test
ContextLinesOfText ==
    { <<>>, PatchLine(<<"x">>, "DELETE", <<"{}">>), PatchLine(F1, "INSERT", <<"{bad">>) }

ParseTexts ==
    ParseLines
    \cup {l \o <<NL>> \o g : l \in ParseLines, g \in ContextLinesOfText}
    \cup {g \o <<NL>> \o l : l \in ParseLines, g \in ContextLinesOfText}

InitParse ==
    /\ features = <<>>
    /\ heap = <<>>
    /\ feature_counter = 0
    /\ chat = <<SYSTEM_MESSAGE>>
    /\ snapshot = <<>>
    /\ snapshot_held = FALSE
    /\ mutations = 0
    /\ warnings = <<>>
    /\ last = Returned("init", <<>>, 0, <<>>)
    /\ before = [items |-> <<>>, counter |-> 0, chat |-> <<>>, context |-> <<>>]
    /\ response \in ParseTexts
    /\ parsed = <<>>
    /\ replica = <<>>
    /\ main_pc = "none"
    /\ read = NoRead
    /\ stdout = <<>>
    /\ first_inserted = <<>>

\* one call _parse_patches(response)
ParseCall ==
    /\ last.op = "init"
    /\ LET r == parse_patches(response)
       IN  /\ parsed' = r.patches
           /\ warnings' = r.warned
           /\ last' = IF r.raised THEN Raised("parse_patches", response, 0)
                       ELSE Returned("parse_patches", response, 0, r.patches)
    /\ UNCHANGED <<features, heap, feature_counter, chat, snapshot, snapshot_held,
                   mutations, before, response, replica>>
    /\ UNCHANGED mainVars

NextParse == ParseCall

SpecParse == InitParse /\ [][NextParse]_vars

----------------------------------------------------------------------------
(* Claims *)

TurnRaised   == last.op = "generate_patches" /\ last.outcome = "raised"
TurnReturned == last.op = "generate_patches" /\ last.outcome = "returned"

\* C1: when the collaborator call of a turn fails, the FeatureStore, the Counter
\* and the chat's message list are all what they were before the turn.
C1_FailedTurnLeavesSessionUnchanged ==
    TurnRaised =>
        /\ DictItems(features, heap) = before.items
        /\ feature_counter = before.counter
        /\ chat = before.chat

\* C2: after a reset call, completed or failed, store, counter and chat are
\* either all fresh or all unchanged.
C2_ResetIsAtomic ==
    last.op = "reset" =>
        \/ /\ features = <<>>
           /\ feature_counter = 0
           /\ chat = <<SYSTEM_MESSAGE>>
        \/ /\ DictItems(features, heap) = before.items
           /\ feature_counter = before.counter
           /\ chat = before.chat

\* The grammar of section 4.1 of the specification, token by token: the tokens
\* of a line are delimited by whitespace, the JSON content is the rest of the line.
FirstToken(s) ==
    LET i == CHOOSE j \in 1..(Len(s) + 1) :
                 /\ j = Len(s) + 1 \/ IsSpace(s[j])
                 /\ \A m \in 1..(j - 1) : ~IsSpace(s[m])
    IN  SubSeq(s, 1, i - 1)

AfterFirstToken(s) == LStrip(SubSeq(s, Len(FirstToken(s)) + 1, Len(s)))

GrammarRecord(raw) ==
    LET line   == Strip(raw)
        rest1  == AfterFirstToken(line)
        id     == FirstToken(rest1)
        rest2  == AfterFirstToken(rest1)
        action == Upper(FirstToken(rest2))
        json   == AfterFirstToken(rest2)
        ok     == /\ FirstToken(line) = <<"AT">>
                  /\ id # <<>>
                  /\ Len(action) = 1 /\ action[1] \in Actions
                  /\ json = <<>> \/ JsonOk(json)
    IN  IF ok
        THEN <<[feature_id |-> id, action |-> action[1],
                data |-> IF json = <<>> THEN JObj(<<>>) ELSE JsonLoads(json)]>>
        ELSE <<>>

RECURSIVE GrammarRecords(_)
GrammarRecords(lines) ==
    IF lines = <<>> THEN <<>>
    ELSE GrammarRecord(Head(lines)) \o GrammarRecords(Tail(lines))

\* C3: _parse_patches never raises, and returns exactly the records of the
\* well-formed lines, in line order, each with an action of INSERT, REPLACE, DELETE;
\* a malformed line contributes nothing and does not stop the lines after it.
C3_ParseReturnsTheWellFormedLines ==
    last.op = "parse_patches" =>
        /\ last.outcome = "returned"
        /\ \A i \in 1..Len(parsed) : parsed[i].action \in Actions
        /\ parsed = GrammarRecords(Split(response, NL, -1))

\* What _apply_patches would make of the current session, given a batch of
\* records: the store as its items and the counter.  The applier never looks
\* into a payload, so each value stands for the object that holds it.
Run(patches) ==
    LET st == apply_patches(
                  [features |-> [i \in 1..Len(features) |->
                                    [id |-> features[i].id, ref |-> heap[features[i].ref]]],
                   counter  |-> feature_counter],
                  patches)
    IN  [items   |-> [i \in 1..Len(st.features) |->
                        [id |-> st.features[i].id, data |-> st.features[i].ref]],
         counter |-> st.counter]

Rec(id, action, data) == [feature_id |-> id, action |-> action, data |-> data]

ItemIds(items) == [i \in 1..Len(items) |-> items[i].id]

SeqSet(q) == {q[i] : i \in 1..Len(q)}

F3   == <<"feat", "_", "3">>
F07  == <<"feat", "_", "0", "7">>
F10  == <<"feat", "_", "1", "0">>
FABC == <<"feat", "_", "abc">>
FNIL == <<"feat", "_">>
FNEG == <<"feat", "_", "-", "3">>

\* the ids and payloads the claims are tried on, in every reachable session state
ClaimIds == {F1, F3, F7, F07, F10, F7X, FABC, FNIL, FNEG, <<"x">>, <<>>}

ClaimData == {JObj(<<>>), JObj(<< <<"k", "a">> >>), JObj(<< <<"k", "b">> >>), JInt(7)}

\* id is exactly feat_ followed by an integer
IsFeatInteger(id) ==
    StartsWith(id, <<"feat", "_">>) /\ IntOk(SubSeq(id, 3, Len(id)))

FeatInteger(id) == IntVal(SubSeq(id, 3, Len(id)))

\* a record of the last returned batch that was the first of the batch on its id
FirstOnId(i) ==
    \A j \in 1..(i - 1) : last.patches[j].feature_id # last.patches[i].feature_id

\* C4 as stated: REPLACE of an absent id leaves store and counter as INSERT does.
C4_ReplaceOfAbsentIdIsInsert ==
    \A id \in ClaimIds \ DictKeys(features) : \A d \in ClaimData :
        Run(<<Rec(id, "REPLACE", d)>>) = Run(<<Rec(id, "INSERT", d)>>)

\* C4 amended: REPLACE of an absent id leaves the FeatureStore as INSERT does and
\* leaves the Counter unchanged, where INSERT may raise it.
C4_ReplaceOfAbsentIdUpserts ==
    \A id \in ClaimIds \ DictKeys(features) : \A d \in ClaimData :
        LET r == Run(<<Rec(id, "REPLACE", d)>>)
            i == Run(<<Rec(id, "INSERT", d)>>)
        IN  /\ r.items = i.items
            /\ r.items = Append(DictItems(features, heap), [id |-> id, data |-> d])
            /\ r.counter = feature_counter
            /\ i.counter >= r.counter

\* a turn has applied a REPLACE to an id the store did not hold
C4_Witness ==
    /\ TurnReturned
    /\ \E i \in 1..Len(last.patches) :
         /\ last.patches[i].action = "REPLACE"
         /\ last.patches[i].feature_id \notin SeqSet(ItemIds(before.items))
         /\ FirstOnId(i)
         /\ last.patches[i].feature_id \in DictKeys(features)

\* C5: an INSERT of feat_<integer n> sets the Counter to max(Counter, n); an INSERT
\* of any other id, feat_7_x among them, leaves the Counter unchanged.
C5_InsertCounterRule ==
    (TurnReturned /\ Len(last.patches) = 1 /\ last.patches[1].action = "INSERT") =>
        LET id == last.patches[1].feature_id
        IN  feature_counter =
                IF IsFeatInteger(id) THEN Max(before.counter, FeatInteger(id))
                ELSE before.counter

FeatIntegerIds == {F1, F3, F7, F07, F10, FNEG}

\* the ids of the specification's example: feat_003, feat_001, feat_007
ExampleIds == {F3, F1, F7}

Max3(a, b, c) == Max(a, Max(b, c))

\* C6: without a reset the Counter never decreases (REPLACE and DELETE leave it
\* unchanged), and after INSERTs of ids feat_<n> it is the maximum of the previous
\* Counter and all n, whatever the order of the INSERTs.
C6_CounterMonotone ==
    /\ TurnReturned => feature_counter >= before.counter
    /\ \A id \in ClaimIds : \A d \in ClaimData :
         /\ Run(<<Rec(id, "INSERT", d)>>).counter >= feature_counter
         /\ Run(<<Rec(id, "REPLACE", d)>>).counter = feature_counter
         /\ Run(<<Rec(id, "DELETE", d)>>).counter = feature_counter
    /\ \A a \in FeatIntegerIds : \A b \in FeatIntegerIds :
         LET d == JObj(<<>>)
         IN  /\ Run(<<Rec(a, "INSERT", d)>>).counter
                    = Max(feature_counter, FeatInteger(a))
             /\ Run(<<Rec(a, "INSERT", d), Rec(b, "INSERT", d)>>).counter
                    = Max(feature_counter, Max(FeatInteger(a), FeatInteger(b)))
    /\ \A a \in ExampleIds : \A b \in ExampleIds : \A c \in ExampleIds :
         LET d == JObj(<<>>)
             m == Max3(FeatInteger(a), FeatInteger(b), FeatInteger(c))
         IN  Run(<<Rec(a, "INSERT", d), Rec(b, "INSERT", d),
                   Rec(c, "INSERT", d)>>).counter = Max(feature_counter, m)

\* a turn has deleted the feature with the highest number and the Counter stayed
C6_Witness ==
    /\ TurnReturned
    /\ before.counter = 7
    /\ feature_counter = 7
    /\ F7 \in SeqSet(ItemIds(before.items))
    /\ F7 \notin DictKeys(features)
    /\ \E i \in 1..Len(last.patches) :
         last.patches[i].action = "DELETE" /\ last.patches[i].feature_id = F7

\* C7: a REPLACE or a repeated INSERT of an id already present keeps the
\* enumeration order and never makes a second entry; INSERT id d1 then REPLACE id d2
\* leaves one entry for id, holding d2, where the INSERT put it.
C7_ReplaceKeepsPosition ==
    LET items == DictItems(features, heap)
    IN  /\ \A i \in 1..Len(features) : \A j \in 1..Len(features) :
             features[i].id = features[j].id => i = j
        /\ \A i \in 1..Len(items) : \A d \in ClaimData : \A a \in {"REPLACE", "INSERT"} :
             Run(<<Rec(items[i].id, a, d)>>).items = [items EXCEPT ![i].data = d]
        /\ \A id \in ClaimIds : \A d1 \in ClaimData : \A d2 \in ClaimData :
             LET ins  == Run(<<Rec(id, "INSERT", d1)>>).items
                 both == Run(<<Rec(id, "INSERT", d1), Rec(id, "REPLACE", d2)>>).items
             IN  /\ ItemIds(both) = ItemIds(ins)
                 /\ \E i \in 1..Len(both) :
                      /\ both[i] = [id |-> id, data |-> d2]
                      /\ \A j \in 1..Len(both) : both[j].id = id => j = i
                      /\ \A j \in 1..Len(both) : j # i => both[j] = ins[j]

\* a turn has replaced a feature that was not the newest of the store
C7_Witness ==
    /\ TurnReturned
    /\ Len(last.patches) = 1
    /\ last.patches[1].action = "REPLACE"
    /\ Len(before.items) >= 2
    /\ before.items[1].id = last.patches[1].feature_id
    /\ before.items[1].data # last.patches[1].data
    /\ DictItems(features, heap) = [before.items EXCEPT ![1].data = last.patches[1].data]

\* C8: the same DELETE applied twice leaves what one leaves, a DELETE of an absent
\* id changes nothing, and the data of a DELETE record has no effect.
C8_DeleteIdempotent ==
    LET now == [items |-> DictItems(features, heap), counter |-> feature_counter]
    IN  \A id \in ClaimIds \cup DictKeys(features) : \A d \in ClaimData :
          LET once == Run(<<Rec(id, "DELETE", d)>>)
          IN  /\ Run(<<Rec(id, "DELETE", d), Rec(id, "DELETE", d)>>) = once
              /\ \A e \in ClaimData : Run(<<Rec(id, "DELETE", e)>>) = once
              /\ id \notin DictKeys(features) => once = now
              /\ id \notin SeqSet(ItemIds(once.items))
              /\ \A i \in 1..Len(now.items) :
                   now.items[i].id # id => now.items[i] \in SeqSet(once.items)

\* a turn has deleted an id that a non-empty store did not hold
C8_Witness ==
    /\ TurnReturned
    /\ Len(last.patches) = 1
    /\ last.patches[1].action = "DELETE"
    /\ before.items # <<>>
    /\ last.patches[1].feature_id \notin SeqSet(ItemIds(before.items))
    /\ DictItems(features, heap) = before.items

\* the lines of a context block after its header, read back as a consumer would:
\* "- <id>: <json>" into the id and the decoded payload
ReadContextLine(line) ==
    LET colon == FindFrom(line, ":", 1)
    IN  [dash |-> SubSeq(line, 1, 2),
         id   |-> SubSeq(line, 3, colon - 1),
         sep  |-> SubSeq(line, colon, colon + 1),
         json |-> SubSeq(line, colon + 2, Len(line))]

\* C9: the context of an empty store is the empty string; the context of a
\* non-empty store begins with the fixed header and holds one line
\* "- <id>: <json payload>" per feature of the store, in store order, and no other.
C9_ContextFormat ==
    LET context == get_context_prompt(features, heap)
        items   == DictItems(features, heap)
        body    == Split(SubSeq(context, 5, Len(context)), NL, -1)
    IN  IF features = <<>> THEN context = <<>>
        ELSE /\ SubSeq(context, 1, 4) = <<NL, NL, HEADER, NL>>
             /\ Len(body) = Len(items) + 1
             /\ body[Len(body)] = <<>>
             /\ \A i \in 1..Len(items) :
                  LET l == ReadContextLine(body[i])
                  IN  /\ l.dash = <<"-", SP>>
                      /\ l.id = items[i].id
                      /\ l.sep = <<":", SP>>
                      /\ JsonOk(l.json)
                      /\ JsonLoads(l.json) = items[i].data

\* a request was sent with the context of a store of two features, one of which
\* has been deleted since
C9_Witness ==
    /\ TurnReturned
    /\ Len(before.items) = 2
    /\ Len(features) = 1
    /\ HEADER \in SeqSet(chat[Len(chat)].content)
    /\ get_context_prompt(features, heap) # <<>>

\* C10: no write to the dict get_current_state returned changes the live
\* FeatureStore or the next context block.
C10_SnapshotIsolated ==
    [][MutateSnapshot =>
         /\ DictItems(features', heap') = DictItems(features, heap)
         /\ get_context_prompt(features', heap') = get_context_prompt(features, heap)]_vars

\* C11: once the loop runs, no failed command ends it: main() is left only by the
\* break after quit/exit/bye or after an input signal, with the farewell printed.
C11_LoopSurvivesFailures ==
    /\ main_pc \in {"none", "input", "done"}
    /\ main_pc = "done" =>
         /\ read.kind \in InputSignals \/ Lower(read.text) \in ExitWords
         /\ \E i \in 1..Len(stdout) : FAREWELL \in SeqSet(stdout[i])

\* the context block of section 4.4 for a store given as its items
ContextBlock(items) ==
    IF items = <<>> THEN <<>> ELSE <<NL, NL, HEADER, NL>> \o ContextLines(items)

\* C12: the chat of a session starts with the one system message and holds user
\* messages after it; a design request appends one user message, the user text
\* followed by the context block of the store as the turn found it, and makes one
\* collaborator call; when it returns, the response has been parsed and the
\* parsed list applied to the store.
C12_TurnProtocol ==
    /\ chat # <<>>
    /\ chat[1] = SYSTEM_MESSAGE
    /\ \A i \in 2..Len(chat) : chat[i].role = "user"
    /\ (last.op = "reset" /\ last.outcome = "returned") => chat = <<SYSTEM_MESSAGE>>
    /\ last.op = "generate_patches" =>
         /\ chat = Append(before.chat,
                          [role |-> "user",
                           content |-> last.input \o ContextBlock(before.items)])
         /\ last.calls = 1
    /\ TurnReturned =>
         /\ last.patches = parse_patches(response).patches
         /\ DictItems(features, heap) = Replay(before.items, last.patches)

\* the second request of a session was sent with the context of a non-empty store,
\* and its response changed the store
C12_Witness ==
    /\ TurnReturned
    /\ Len(chat) = 3
    /\ before.items # <<>>
    /\ HEADER \in SeqSet(chat[3].content)
    /\ last.patches # <<>>
    /\ DictItems(features, heap) # before.items

\* the whitespace-delimited tokens of a line, as section 4.1 names them, and the
\* rest of the line after the action token
LineTokens(raw) ==
    LET line  == Strip(raw)
        rest1 == AfterFirstToken(line)
        rest2 == AfterFirstToken(rest1)
    IN  [line   |-> line,
         head   |-> FirstToken(line),
         id     |-> FirstToken(rest1),
         action |-> FirstToken(rest2),
         json   |-> AfterFirstToken(rest2)]

\* the action token names one of the three actions, in any case
ActionOk(t) == \E a \in Actions : Upper(t.action) = <<a>>

\* the lines of the response text that was parsed
ResponseRawLines == Split(response, NL, -1)

\* what _parse_patches returns for one line alone
RecordsOf(raw) == parse_patches(raw).patches

\* the line starts with AT and is skipped for one of the two reasons that call
\* for a diagnostic
NeedsDiagnostic(raw) ==
    LET t == LineTokens(raw)
    IN  /\ t.head = <<"AT">>
        /\ \/ t.id = <<>>
           \/ t.action = <<>>
           \/ ActionOk(t) /\ t.json # <<>> /\ ~JsonOk(t.json)

RECURSIVE Diagnostics(_)
Diagnostics(lines) ==
    IF lines = <<>> THEN <<>>
    ELSE (IF NeedsDiagnostic(Head(lines)) THEN <<Strip(Head(lines))>> ELSE <<>>)
         \o Diagnostics(Tail(lines))

RECURSIVE RecordsOfEach(_)
RecordsOfEach(lines) ==
    IF lines = <<>> THEN <<>> ELSE RecordsOf(Head(lines)) \o RecordsOfEach(Tail(lines))

\* C13: each line that starts with AT and is skipped because its JSON content does
\* not parse, or because fewer than two tokens follow AT, puts one diagnostic on
\* the side channel, no other line puts any, and the lines after it are parsed.
C13_SkippedLinesAreDiagnosed ==
    last.op = "parse_patches" =>
        /\ last.outcome = "returned"
        /\ warnings = Diagnostics(ResponseRawLines)
        /\ parsed = RecordsOfEach(ResponseRawLines)

\* the tokens of a line joined by single spaces
SingleSpaced(raw) ==
    LET t == LineTokens(raw)
    IN  IF t.head # <<"AT">> THEN raw
        ELSE <<"AT">> \o (IF t.id = <<>> THEN <<>> ELSE <<SP>> \o t.id)
                      \o (IF t.action = <<>> THEN <<>> ELSE <<SP>> \o t.action)
                      \o (IF t.json = <<>> THEN <<>> ELSE <<SP>> \o t.json)

\* C14: a line whose first token is AT yields the record that the same tokens
\* separated by single spaces yield, and the record's feature_id and action are
\* the second and the third whitespace-delimited token of the line.
C14_TokensAreWhitespaceDelimited ==
    last.op = "parse_patches" =>
        \A n \in 1..Len(ResponseRawLines) :
            LET raw == ResponseRawLines[n]
                t   == LineTokens(raw)
            IN  t.head = <<"AT">> =>
                  /\ RecordsOf(raw) = RecordsOf(SingleSpaced(raw))
                  /\ \A i \in 1..Len(RecordsOf(raw)) :
                       /\ RecordsOf(raw)[i].feature_id = t.id
                       /\ <<RecordsOf(raw)[i].action>> = Upper(t.action)

\* the line has the tokens AT, a feature id and one of the three actions
HasRecordTokens(t) == t.head = <<"AT">> /\ t.id # <<>> /\ ActionOk(t)

\* C15: a line that ends with its action token yields a record whose data is {},
\* for each of the three actions; a line with JSON content after the action token
\* yields a record whose data is the whole rest of the line, decoded.
C15_MissingJsonIsEmptyObject ==
    last.op = "parse_patches" =>
        \A n \in 1..Len(ResponseRawLines) :
            LET raw == ResponseRawLines[n]
                t   == LineTokens(raw)
            IN  HasRecordTokens(t) =>
                  /\ t.json = <<>> =>
                       RecordsOf(raw) = <<Rec(t.id, Upper(t.action)[1], JObj(<<>>))>>
                  /\ (t.json # <<>> /\ JsonOk(t.json)) =>
                       RecordsOf(raw) = <<Rec(t.id, Upper(t.action)[1], JsonLoads(t.json))>>

\* C16: a line with the action token insert, Insert or INSERT yields a record whose
\* action is INSERT; a line that starts with at or At yields none; every returned
\* action is INSERT, REPLACE or DELETE, and a record with any other action would
\* leave the store as it is.
C16_ActionCaseInsensitive ==
    last.op = "parse_patches" =>
        /\ \A i \in 1..Len(parsed) : parsed[i].action \in Actions
        /\ \A a \in {"MOVE", "insert", ""} : \A id \in ClaimIds :
             ApplyPatch([features |-> features, counter |-> feature_counter],
                        Rec(id, a, JObj(<<>>)))
               = [features |-> features, counter |-> feature_counter]
        /\ \A n \in 1..Len(ResponseRawLines) :
             LET raw == ResponseRawLines[n]
                 t   == LineTokens(raw)
             IN  /\ t.head \in {<<"at">>, <<"At">>} => RecordsOf(raw) = <<>>
                 /\ ( /\ HasRecordTokens(t)
                      /\ t.action \in {<<"insert">>, <<"Insert">>, <<"INSERT">>}
                      /\ t.json = <<>> \/ JsonOk(t.json) ) =>
                        /\ Len(RecordsOf(raw)) = 1
                        /\ RecordsOf(raw)[1].action = "INSERT"

\* a store of items and a counter, as the applier's state over payload values
ValueState(items, counter) ==
    [features |-> [i \in 1..Len(items) |-> [id |-> items[i].id, ref |-> items[i].data]],
     counter  |-> counter]

ItemState(st) ==
    [items   |-> [i \in 1..Len(st.features) |->
                    [id |-> st.features[i].id, data |-> st.features[i].ref]],
     counter |-> st.counter]

\* the per-record transition applied to the first n records of a batch, one after
\* the other
RECURSIVE Steps(_, _, _)
Steps(st, batch, n) ==
    IF n = 0 THEN st ELSE ApplyPatch(Steps(st, batch, n - 1), batch[n])

\* the position of the last record of a batch on an id
LastOn(batch, id) ==
    CHOOSE k \in 1..Len(batch) :
        /\ batch[k].feature_id = id
        /\ \A m \in (k + 1)..Len(batch) : batch[m].feature_id # id

\* in the store that a batch left, each id of the batch is as its last record says
LastRecordWins(batch, items) ==
    \A n \in 1..Len(batch) :
        LET id == batch[n].feature_id
            k  == LastOn(batch, id)
        IN  IF batch[k].action = "DELETE"
            THEN id \notin SeqSet(ItemIds(items))
            ELSE [id |-> id, data |-> batch[k].data] \in SeqSet(items)

\* the records the batches are made of: on each id an INSERT, a REPLACE with
\* another payload, and a DELETE
RecordsOn(id) ==
    { Rec(id, "INSERT", JObj(<<>>)), Rec(id, "REPLACE", JObj(<< <<"k", "a">> >>)),
      Rec(id, "DELETE", JObj(<<>>)) }

BatchRecords == RecordsOn(F1) \cup RecordsOn(F7)

ClaimBatches ==
    {<<p, q>> : p \in BatchRecords, q \in BatchRecords}
    \cup {<<p, q, r>> : p \in RecordsOn(F7), q \in RecordsOn(F7), r \in RecordsOn(F7)}

\* C17: what _apply_patches leaves is what the per-record transitions leave when
\* taken one after the other in list order, for the batch of every turn and for
\* every batch of two or three records; of several records on one id the last one
\* decides whether the id is present and with which payload.
C17_BatchIsLeftFold ==
    /\ TurnReturned =>
         /\ [items |-> DictItems(features, heap), counter |-> feature_counter]
              = ItemState(Steps(ValueState(before.items, before.counter),
                                last.patches, Len(last.patches)))
         /\ LastRecordWins(last.patches, DictItems(features, heap))
    /\ \A batch \in ClaimBatches :
         /\ Run(batch)
              = ItemState(Steps(ValueState(DictItems(features, heap), feature_counter),
                                batch, Len(batch)))
         /\ LastRecordWins(batch, Run(batch).items)

\* a turn has applied an INSERT and then a DELETE of the same id, or an INSERT and
\* then a REPLACE with another payload
C17_Witness ==
    /\ TurnReturned
    /\ Len(last.patches) = 2
    /\ last.patches[1].feature_id = last.patches[2].feature_id
    /\ last.patches[1].action = "INSERT"
    /\ \/ /\ last.patches[2].action = "DELETE"
          /\ last.patches[1].feature_id \notin DictKeys(features)
       \/ /\ last.patches[2].action = "REPLACE"
          /\ last.patches[2].data # last.patches[1].data
          /\ [id |-> last.patches[2].feature_id, data |-> last.patches[2].data]
                \in SeqSet(DictItems(features, heap))

\* the ids of q that are in keep, in the order of q
Among(q, keep) == SelectSeq(q, LAMBDA id : id \in keep)

\* the items of the store taken in the order of ids
InOrder(items, ids) ==
    [i \in 1..Len(ids) |-> items[CHOOSE n \in 1..Len(items) : items[n].id = ids[i]]]

\* C18: the store, the context block and the state dump enumerate the ids now
\* present in the order in which they first entered the store in this session.
C18_FirstInsertionOrder ==
    LET items == DictItems(features, heap)
        ids   == Among(first_inserted, DictKeys(features))
    IN  main_pc # "none" =>
          /\ ItemIds(items) = ids
          /\ get_context_prompt(features, heap) = ContextBlock(InOrder(items, ids))
          /\ (read.kind = "line" /\ Lower(read.text) = <<"state">> /\ items # <<>>) =>
               stdout[2] = StateDump(InOrder(items, ids))

\* an id is a non-empty token without whitespace
IsToken(id) == id # <<>> /\ \A i \in 1..Len(id) : ~IsSpace(id[i])

\* C19: every feature_id the parser returned and every key of the FeatureStore is
\* a non-empty token without whitespace.
C19_IdsAreTokens ==
    /\ \A i \in 1..Len(parsed) : IsToken(parsed[i].feature_id)
    /\ \A i \in 1..Len(features) : IsToken(features[i].id)

\* C20: the consumer that replays every returned batch, and empties its store when
\* reset is called, holds the agent's FeatureStore after every operation: same
\* ids, same payloads, same order.  The list a turn returns is the list it parsed
\* and applied; a failed turn returns none and changes no feature.
C20_ReplayConsistent ==
    /\ replica = DictItems(features, heap)
    /\ TurnReturned =>
         /\ last.patches = parsed
         /\ DictItems(features, heap) = Replay(before.items, last.patches)
    /\ TurnRaised =>
         /\ last.patches = <<>>
         /\ DictItems(features, heap) = before.items

\* the second turn of a session returned a batch that changed a non-empty store,
\* and the consumer followed
C20_Witness ==
    /\ TurnReturned
    /\ Len(chat) = 3
    /\ before.items # <<>>
    /\ Len(last.patches) = 2
    /\ replica # before.items
    /\ replica # <<>>
    /\ replica = DictItems(features, heap)

====
